---------------------------- MODULE Spec2Model ----------------------------
(***************************************************************************)
(* A model of the Profile of the test-data-generation library              *)
(* (src/src/profile/profile.rs): the pattern and size tables, the          *)
(* partitioned store of Facts, the cumulative rank tables, and the         *)
(* operations analyze, pre_generate (cum_sizemap, cum_patternmap),         *)
(* generate, apply_facts and reset_analyze.                                *)
(*                                                                         *)
(* Representation.  A char is its code point, a String the sequence of its *)
(* chars (the samples are ASCII, so bytes and chars coincide).  An f64 is  *)
(* the exact rational <<numerator, denominator>> in lowest terms: the      *)
(* order and the equalities of the percentages are those of the floats,    *)
(* the rounding error of the floats is left out.  A BTreeMap is a function *)
(* whose DOMAIN is the key set; its iteration order is the key order.      *)
(* A panic ends the program: no operation is enabled after it.             *)
(***************************************************************************)
EXTENDS Integers, Sequences, FiniteSets, TLC

\* ------------------------------------------------------------------ bounds
\* the longest sample analyzed
MaxLen == 2
\* the number of analyze calls in a run
MaxAnalyze == 3
\* the number of pre_generate calls in a run
MaxFinalize == 2
\* the number of reset_analyze calls in a run
MaxReset == 1
\* the largest processor count given to new_with (Profile::new() gives 4; a
\* sample of MaxLen chars fills at most MaxLen partitions)
MaxProcessors == 2
\* the resolution of a random draw: a draw is d/DrawRes, d in 0..DrawRes-1
DrawRes == 2

\* the chars of the samples: 'b' and 'c', two lower consonants
Alphabet == {98, 99}

\* ------------------------------------------------------------- constants
\* the blank that stands for a missing prior char (' ')
BLANK == 32
\* Option::None of a Fact's prior_key and next_key
None == 0

\* --------------------------------------------------------------- strings
Strings(alphabet, n) == UNION {[1..k -> alphabet] : k \in 0..n}

\* the byte-wise lexicographic order of String (the key order of PatternMap)
RECURSIVE LexLess(_, _)
LexLess(a, b) ==
    IF b = <<>> THEN FALSE
    ELSE IF a = <<>> THEN TRUE
    ELSE IF Head(a) # Head(b) THEN Head(a) < Head(b)
    ELSE LexLess(Tail(a), Tail(b))

\* the keys of a BTreeMap<String, _> in iteration order
RECURSIVE StringKeys(_)
StringKeys(S) ==
    IF S = {} THEN <<>>
    ELSE LET m == CHOOSE x \in S : \A y \in S \ {x} : LexLess(x, y)
         IN  <<m>> \o StringKeys(S \ {m})

\* the keys of a BTreeMap<u32, _> in iteration order
RECURSIVE NumKeys(_)
NumKeys(S) ==
    IF S = {} THEN <<>>
    ELSE LET m == CHOOSE x \in S : \A y \in S : x <= y
         IN  <<m>> \o NumKeys(S \ {m})

\* ------------------------------------------------------------------- f64
RECURSIVE GCD(_, _)
GCD(a, b) == IF b = 0 THEN a ELSE GCD(b, a % b)

\* the rational n/d (d > 0) in lowest terms
Rat(n, d) == LET g == GCD(n, d) IN <<n \div g, d \div g>>

Zero == Rat(0, 1)

RatAdd(x, y) == Rat(x[1] * y[2] + y[1] * x[2], x[2] * y[2])

RatLess(x, y) == x[1] * y[2] < y[1] * x[2]

RatLeq(x, y) == x[1] * y[2] <= y[1] * x[2]

\* x.iter().sum::<u32>() over the values of a table
RECURSIVE SumOver(_, _)
SumOver(f, S) ==
    IF S = {} THEN 0
    ELSE LET k == CHOOSE x \in S : TRUE IN f[k] + SumOver(f, S \ {k})

SumValues(f) == SumOver(f, DOMAIN f)

\* map.entry(k).or_insert(0) += 1
Increment(f, k) ==
    IF k \in DOMAIN f THEN [f EXCEPT ![k] = @ + 1]
    ELSE [x \in DOMAIN f \cup {k} |-> IF x = k THEN 1 ELSE f[x]]

EmptyMap == [x \in {} |-> 0]


\* ------------------------------------------------- Pattern and Fact (fact.rs)
\* PatternPlaceholder: the symbol of a char's class: 'V' 'C' (upper vowel,
\* consonant), 'v' 'c' (lower), '#' (digit), 'S' (space), 'p' (punctuation:
\* ',' '?' '^') and '~' (any other char, as '@' and the apostrophe)
Placeholder(ch) ==
    IF ch \in {65, 69, 73, 79, 85} THEN 86
    ELSE IF ch \in 65..90 THEN 67
    ELSE IF ch \in {97, 101, 105, 111, 117} THEN 118
    ELSE IF ch \in 97..122 THEN 99
    ELSE IF ch \in 48..57 THEN 35
    ELSE IF ch = 32 THEN 83
    ELSE IF ch \in {44, 63, 94} THEN 112
    ELSE 126

\* Fact::new(k, pp, sw, ew, idx_off)
Fact(k, pp, sw, ew, idx_off) ==
    [key |-> k, prior_key |-> None, next_key |-> None,
     pattern_placeholder |-> pp, starts_with |-> sw, ends_with |-> ew,
     index_offset |-> idx_off]

\* Fact::set_prior_key
set_prior_key(fact, pk) == [fact EXCEPT !.prior_key = pk]

\* Fact::set_next_key
set_next_key(fact, nk) == [fact EXCEPT !.next_key = nk]

\* the Fact of the char at 0-based position idx of entity
Factualize(entity, idx) ==
    LET n  == Len(entity)
        f0 == Fact(entity[idx + 1], Placeholder(entity[idx + 1]),
                   IF idx = 0 THEN 1 ELSE 0, IF idx = n - 1 THEN 1 ELSE 0, idx)
        f1 == IF idx > 0 THEN set_prior_key(f0, entity[idx]) ELSE f0
    IN  IF idx < n - 1 THEN set_next_key(f1, entity[idx + 2]) ELSE f1

\* Pattern::analyze: the pattern string, the Facts (one per char, in order)
\* and the size of the entity
PatternAnalyze(entity) ==
    [pattern |-> [i \in 1..Len(entity) |-> Placeholder(entity[i])],
     facts   |-> [i \in 1..Len(entity) |-> Factualize(entity, i - 1)],
     size    |-> Len(entity)]

\* ------------------------------------------------------------------ state
VARIABLES
    patterns,             \* PatternMap: pattern -> count
    pattern_total,        \* u32
    pattern_keys,         \* Vec<String>
    pattern_vals,         \* Vec<u32>
    pattern_percentages,  \* Vec<(String, f64)>
    pattern_ranks,        \* Vec<(String, f64)>
    sizes,                \* SizeMap: size -> count
    size_total,           \* u32
    size_ranks,           \* Vec<(u32, f64)>
    processors,           \* u8
    facts,                \* Vec<Vec<Fact>>
    outcome,              \* the last call: its name, its argument, how it
                          \* ended (and on what it panicked), its value
    ingested,             \* history: the samples analyzed, in order
    since_reset,          \* history: those analyzed after the last reset
    n_reset,              \* history: the number of reset_analyze calls
    n_finalize            \* history: the number of pre_generate calls

profile == <<patterns, pattern_total, pattern_keys, pattern_vals,
             pattern_percentages, pattern_ranks, sizes, size_total,
             size_ranks, processors, facts>>

history == <<ingested, since_reset, n_reset, n_finalize>>

vars == <<profile, outcome, history>>

Outcome(op, arg, r) ==
    [op |-> op, arg |-> arg, status |-> r.status, panic |-> r.panic,
     value |-> r.value]

\* how a call ends: it returns value, or it panics on what
Ok(value) == [status |-> "ok", panic |-> "", value |-> value]

Panic(what, value) == [status |-> "panic", panic |-> what, value |-> value]

\* the program is running: no call has panicked
Running == outcome.status # "panic"

\* the last call was generate or apply_facts.  Both leave the Profile as it
\* is, so every call made after one of them leads where the same call made
\* before it leads: the calls are taken from the state before it.
Generated == outcome.op \in {"generate", "apply_facts"}

\* Profile::new_facts(p)
new_facts(p) == [i \in 1..p |-> <<>>]

\* Profile::new_with(p)
new_with(p) ==
    /\ patterns = EmptyMap
    /\ pattern_total = 0
    /\ pattern_keys = <<>>
    /\ pattern_vals = <<>>
    /\ pattern_percentages = <<>>
    /\ pattern_ranks = <<>>
    /\ sizes = EmptyMap
    /\ size_total = 0
    /\ size_ranks = <<>>
    /\ processors = p
    /\ facts = new_facts(p)

Init ==
    /\ \E p \in 0..MaxProcessors : new_with(p)
    /\ outcome = Outcome("new_with", <<>>, Ok(<<>>))
    /\ ingested = <<>>
    /\ since_reset = <<>>
    /\ n_reset = 0
    /\ n_finalize = 0

\* ---------------------------------------------------------------- analyze
\* the loop of analyze that stores the Facts of one sample: the k-th Fact
\* (1-based) goes to partition i, and i goes back to 0 when it reaches
\* processors; indexing a partition that does not exist panics
RECURSIVE StoreFacts(_, _, _, _, _)

\* a loop that stores every Fact of the sample in partition 0
StoreFactsFirst(fs, p, rslt, k, i) ==
    IF rslt = <<>> THEN [ok |-> TRUE, facts |-> fs]
    ELSE IF fs = <<>> THEN [ok |-> FALSE, facts |-> fs]
    ELSE [ok |-> TRUE, facts |-> [fs EXCEPT ![1] = @ \o rslt]]

StoreFacts(fs, p, rslt, k, i) ==
    IF k > Len(rslt) THEN [ok |-> TRUE, facts |-> fs]
    ELSE LET j == IF i = p THEN 0 ELSE i
         IN  IF j >= Len(fs) THEN [ok |-> FALSE, facts |-> fs]
             ELSE StoreFacts([fs EXCEPT ![j + 1] = Append(@, rslt[k])],
                             p, rslt, k + 1, j + 1)

\* a total that counts the keys, not their occurrences
PatternTotalOfKeys(p) == Cardinality(DOMAIN p)

\* self.patterns.values().sum::<u32>()
PatternTotal(p) == SumValues(p)

\* self.sizes.values().sum::<u32>()
SizeTotal(s) == SumValues(s)

\* self.patterns.values().cloned().collect()
Values(p, keys) == [i \in 1..Len(keys) |-> p[keys[i]]]

analyze(entity) ==
    /\ Running
    /\ ~Generated
    /\ Len(ingested) < MaxAnalyze
    /\ LET rslt   == PatternAnalyze(entity)
           stored == StoreFacts(facts, processors, rslt.facts, 1, 0)
       IN  IF ~stored.ok
           THEN /\ outcome' = Outcome("analyze", entity,
                                      Panic("facts[i]: index out of bounds", <<>>))
                /\ UNCHANGED <<profile, history>>
           ELSE LET p == Increment(patterns, rslt.pattern)
                    s == Increment(sizes, rslt.size)
                    keys == StringKeys(DOMAIN p)
                IN  /\ facts' = stored.facts
                    /\ patterns' = p
                    /\ pattern_total' = PatternTotal(p)
                    /\ sizes' = s
                    /\ size_total' = SizeTotal(s)
                    /\ pattern_keys' = keys
                    /\ pattern_vals' = Values(p, keys)
                    /\ outcome' = Outcome("analyze", entity, Ok(<<>>))
                    /\ ingested' = Append(ingested, entity)
                    /\ since_reset' = Append(since_reset, entity)
                    /\ UNCHANGED <<pattern_percentages, pattern_ranks,
                                   size_ranks, processors, n_reset, n_finalize>>

\* ----------------------------------------------------------- pre_generate
\* (count as f64 / total as f64) * 100.0; a table with an entry has a total
\* of at least 1 (0/0 is no rational, and TLC stops on it)
Percentage(count, total) == Rat(count * 100, total)

\* Vec::sort_by(|&(_, a), &(_, b)| b.partial_cmp(&a).unwrap()) is a stable
\* sort: e goes before the first entry of a smaller percentage, after every
\* entry of an equal or a greater one
RECURSIVE InsertByPercentage(_, _)

\* the insertion of a sort that is not stable: e goes before the entries of
\* an equal percentage
InsertBeforeEqual(v, e) ==
    IF v = <<>> THEN <<e>>
    ELSE IF RatLeq(Head(v)[2], e[2]) THEN <<e>> \o v
    ELSE <<Head(v)>> \o InsertByPercentage(Tail(v), e)

InsertByPercentage(v, e) ==
    IF v = <<>> THEN <<e>>
    ELSE IF RatLess(Head(v)[2], e[2]) THEN <<e>> \o v
    ELSE <<Head(v)>> \o InsertByPercentage(Tail(v), e)

RECURSIVE SortByPercentage(_)
SortByPercentage(v) ==
    IF v = <<>> THEN <<>>
    ELSE InsertByPercentage(SortByPercentage(SubSeq(v, 1, Len(v) - 1)), v[Len(v)])

\* the running sum of the percentages of v, starting from rank
RECURSIVE Cumulative(_, _)
Cumulative(v, rank) ==
    IF v = <<>> THEN <<>>
    ELSE LET tmp == RatAdd(Head(v)[2], rank)
         IN  <<<<Head(v)[1], tmp>>>> \o Cumulative(Tail(v), tmp)

\* cum_sizemap without its sort: the sizes stay in key order
cum_sizemap_unsorted(s, total) ==
    LET keys == NumKeys(DOMAIN s)
    IN  Cumulative([i \in 1..Len(keys) |->
                       <<keys[i], Percentage(s[keys[i]], total)>>], Zero)

\* Profile::cum_sizemap: the new size_ranks
cum_sizemap(s, total) ==
    LET keys == NumKeys(DOMAIN s)
        size_ranks_map == [i \in 1..Len(keys) |->
                              <<keys[i], Percentage(s[keys[i]], total)>>]
    IN  Cumulative(SortByPercentage(size_ranks_map), Zero)

\* Profile::cum_patternmap: the new pattern_percentages and pattern_ranks;
\* it pushes onto the two lists that the earlier calls have filled, and it
\* panics when it indexes pattern_keys or pattern_vals out of range
cum_patternmap(p, keys, vals, total, percentages, ranks) ==
    LET n == Cardinality(DOMAIN p)
    IN  IF n > Len(keys) \/ n > Len(vals)
        THEN [ok |-> FALSE, pattern_percentages |-> percentages,
              pattern_ranks |-> ranks]
        ELSE LET pushed == percentages \o
                     [m \in 1..n |-> <<keys[m], Percentage(vals[m], total)>>]
                 sorted == SortByPercentage(pushed)
             IN  [ok |-> TRUE, pattern_percentages |-> sorted,
                  pattern_ranks |-> ranks \o Cumulative(sorted, Zero)]

pre_generate ==
    /\ Running
    /\ ~Generated
    /\ n_finalize < MaxFinalize
    /\ LET cum == cum_patternmap(patterns, pattern_keys, pattern_vals,
                                 pattern_total, pattern_percentages,
                                 pattern_ranks)
       IN  /\ size_ranks' = cum_sizemap(sizes, size_total)
           /\ pattern_percentages' = cum.pattern_percentages
           /\ pattern_ranks' = cum.pattern_ranks
           /\ outcome' = Outcome("pre_generate", <<>>,
                  IF cum.ok THEN Ok(<<>>)
                  ELSE Panic("pattern_keys[m]: index out of bounds", <<>>))
    /\ n_finalize' = n_finalize + 1
    /\ UNCHANGED <<patterns, pattern_total, pattern_keys, pattern_vals,
                   sizes, size_total, processors, facts,
                   ingested, since_reset, n_reset>>

\* ---------------------------------------------------------- reset_analyze
\* a reset_analyze that empties the partitions of facts as well
reset_analyze_and_facts ==
    /\ Running
    /\ ~Generated
    /\ n_reset < MaxReset
    /\ patterns' = EmptyMap
    /\ facts' = new_facts(processors)
    /\ outcome' = Outcome("reset_analyze", <<>>, Ok(<<>>))
    /\ since_reset' = <<>>
    /\ n_reset' = n_reset + 1
    /\ UNCHANGED <<pattern_total, pattern_keys, pattern_vals,
                   pattern_percentages, pattern_ranks, sizes, size_total,
                   size_ranks, processors, ingested, n_finalize>>

reset_analyze ==
    /\ Running
    /\ ~Generated
    /\ n_reset < MaxReset
    /\ patterns' = EmptyMap
    /\ outcome' = Outcome("reset_analyze", <<>>, Ok(<<>>))
    /\ since_reset' = <<>>
    /\ n_reset' = n_reset + 1
    /\ UNCHANGED <<pattern_total, pattern_keys, pattern_vals,
                   pattern_percentages, pattern_ranks, sizes, size_total,
                   size_ranks, processors, facts, ingested, n_finalize>>

\* ------------------------------------------------------------ apply_facts
\* Option::unwrap_or(' ') of a Fact's prior_key
UnwrapOrBlank(k) == IF k = None THEN BLANK ELSE k

\* a scan that pushes the two further copies for the prior char alone: a
\* weight of 1, or of 3 when the prior char matches
FactKeysByPrior(value, c, starts, ends, idx, prior_char) ==
    IF /\ value.starts_with = starts
       /\ value.ends_with = ends
       /\ value.pattern_placeholder = c
       /\ value.index_offset = idx
    THEN <<value.key>>
         \o (IF UnwrapOrBlank(value.prior_key) = prior_char
             THEN <<value.key, value.key>> ELSE <<>>)
    ELSE <<>>

\* the keys one scan task pushes for one Fact
FactKeys(value, c, starts, ends, idx, prior_char) ==
    IF /\ value.starts_with = starts
       /\ value.ends_with = ends
       /\ value.pattern_placeholder = c
       /\ value.index_offset = idx
    THEN <<value.key>>
         \o (IF UnwrapOrBlank(value.prior_key) = prior_char
             THEN <<value.key, value.key>> ELSE <<>>)
         \o (IF value.index_offset = idx
             THEN <<value.key, value.key>> ELSE <<>>)
    ELSE <<>>

\* the task spawned for one partition v: its list of selected facts
RECURSIVE SelectedFacts(_, _, _, _, _, _)
SelectedFacts(v, c, starts, ends, idx, prior_char) ==
    IF v = <<>> THEN <<>>
    ELSE FactKeys(Head(v), c, starts, ends, idx, prior_char)
         \o SelectedFacts(Tail(v), c, starts, ends, idx, prior_char)

\* a fact_options that holds the list of the first partition's task alone
FactOptionsFirst(fs, c, starts, ends, idx, prior_char) ==
    IF fs = <<>> THEN <<>>
    ELSE SelectedFacts(Head(fs), c, starts, ends, idx, prior_char)

\* fact_options: each partition's task is spawned and joined in turn, and
\* its list appended
RECURSIVE FactOptions(_, _, _, _, _, _)
FactOptions(fs, c, starts, ends, idx, prior_char) ==
    IF fs = <<>> THEN <<>>
    ELSE SelectedFacts(Head(fs), c, starts, ends, idx, prior_char)
         \o FactOptions(Tail(fs), c, starts, ends, idx, prior_char)

\* random_between!(x, rnd_start, rnd_end): the index the draw d/DrawRes
\* selects among rnd_start..rnd_end
random_between(d, rnd_start, rnd_end) ==
    rnd_start + (d * (rnd_end - rnd_start + 1)) \div DrawRes

\* the loop of apply_facts from position idx on.  With no fact selected,
\* fact_options.len()-1 overflows: a build with overflow checks panics
\* there, a build without them wraps rnd_end to usize::MAX and panics on
\* fact_options[x], whatever x is drawn.
RECURSIVE ApplyFactsFrom(_, _, _, _, _, _)

\* a loop that leaves prev_char as it is after a draw, too
ApplyFactsKeepPrev(fs, pattern_chars, draws, idx, prev_char, generated) ==
    IF idx >= Len(pattern_chars)
    THEN Ok(generated)
    ELSE LET fact_options ==
                 FactOptions(fs, pattern_chars[idx + 1],
                             IF idx = 0 THEN 1 ELSE 0,
                             IF idx = Len(pattern_chars) - 1 THEN 1 ELSE 0,
                             idx, prev_char)
             x == random_between(draws[idx + 1], 0, Len(fact_options) - 1)
         IN  IF Len(fact_options) = 0
             THEN Panic("fact_options is empty", generated)
             ELSE ApplyFactsFrom(fs, pattern_chars, draws, idx + 1, prev_char,
                                 Append(generated, fact_options[x + 1]))

ApplyFactsFrom(fs, pattern_chars, draws, idx, prev_char, generated) ==
    IF idx >= Len(pattern_chars)
    THEN Ok(generated)
    ELSE LET c      == pattern_chars[idx + 1]
             starts == IF idx = 0 THEN 1 ELSE 0
             ends   == IF idx = Len(pattern_chars) - 1 THEN 1 ELSE 0
             fact_options == FactOptions(fs, c, starts, ends, idx, prev_char)
             rnd_start == 0
             rnd_end   == Len(fact_options) - 1
         IN  IF Len(fact_options) = 0
             THEN Panic("fact_options is empty", generated)
             ELSE IF rnd_start >= rnd_end
             THEN ApplyFactsFrom(fs, pattern_chars, draws, idx + 1, prev_char,
                                 Append(generated, fact_options[1]))
             ELSE LET x == random_between(draws[idx + 1], rnd_start, rnd_end)
                  IN  ApplyFactsFrom(fs, pattern_chars, draws, idx + 1,
                                     fact_options[x + 1],
                                     Append(generated, fact_options[x + 1]))

\* an apply_facts that leaves out the first position of the pattern
ApplyFactsFromSecond(fs, pattern, draws) ==
    ApplyFactsFrom(fs, pattern, draws, 1, BLANK, <<>>)

\* Profile::apply_facts(pattern), with draws[i] the draw at position i-1
ApplyFacts(fs, pattern, draws) ==
    ApplyFactsFrom(fs, pattern, draws, 0, BLANK, <<>>)

\* the sequences of draws of one call
Draws == [1..MaxLen -> 0..(DrawRes - 1)]

\* the pattern strings a caller may pass
PatternStrings == Strings({Placeholder(ch) : ch \in Alphabet}, MaxLen)

apply_facts(pattern, draws) ==
    /\ Running
    /\ ~Generated
    /\ outcome' = Outcome("apply_facts", pattern,
                           ApplyFacts(facts, pattern, draws))
    /\ UNCHANGED <<profile, history>>

\* --------------------------------------------------------------- generate
\* random_percentage!(s): the draw d/DrawRes as a percentage in [0, 100)
random_percentage(d) == Rat(100 * d, DrawRes)

\* self.pattern_ranks.iter().find(|x| &x.1 >= &s): the index of the first
\* entry found, 0 for Option::None
FindPattern(ranks, s) ==
    LET found == {i \in 1..Len(ranks) : RatLeq(s, ranks[i][2])}
    IN  IF found = {} THEN 0
        ELSE CHOOSE i \in found : \A j \in found : i <= j

\* Profile::generate(): the pattern found and how the call ends; unwrap of
\* Option::None panics
Generate(ranks, fs, d, draws) ==
    LET s == random_percentage(d)
        i == FindPattern(ranks, s)
    IN  IF i = 0
        THEN [pattern |-> <<>>,
              result  |-> Panic("unwrap on Option::None", <<>>)]
        ELSE [pattern |-> ranks[i][1],
              result  |-> ApplyFacts(fs, ranks[i][1], draws)]

\* a generate that takes the entry it selects out of pattern_ranks
generate_consuming(d, draws) ==
    /\ Running
    /\ ~Generated
    /\ LET g == Generate(pattern_ranks, facts, d, draws)
           i == FindPattern(pattern_ranks, random_percentage(d))
       IN  /\ outcome' = Outcome("generate", g.pattern, g.result)
           /\ pattern_ranks' =
                  IF i = 0 THEN pattern_ranks
                  ELSE SubSeq(pattern_ranks, 1, i - 1)
                       \o SubSeq(pattern_ranks, i + 1, Len(pattern_ranks))
    /\ UNCHANGED <<patterns, pattern_total, pattern_keys, pattern_vals,
                   pattern_percentages, sizes, size_total, size_ranks,
                   processors, facts, history>>

generate(d, draws) ==
    /\ Running
    /\ ~Generated
    /\ LET g == Generate(pattern_ranks, facts, d, draws)
       IN  outcome' = Outcome("generate", g.pattern, g.result)
    /\ UNCHANGED <<profile, history>>

\* the calls that change the Profile
Train ==
    \/ \E entity \in Strings(Alphabet, MaxLen) : analyze(entity)
    \/ pre_generate
    \/ reset_analyze

Next ==
    \/ \E entity \in Strings(Alphabet, MaxLen) : analyze(entity)
    \/ pre_generate
    \/ reset_analyze
    \/ \E d \in 0..(DrawRes - 1), draws \in Draws : generate(d, draws)
    \/ \E pattern \in PatternStrings, draws \in Draws :
           apply_facts(pattern, draws)

\* every call, in any order
Spec == Init /\ [][Next]_vars

\* the calls that change the Profile, in any order
SpecTrain == Init /\ [][Train]_vars


\* ------------------------------------------------- the tests' samples
\* the samples of the test profile_pregenerate_patterns:
\* "Smith, John", "O'Brian, Henny", "Dale, Danny", "Rickets, Ronnae",
\* "Richard, Richie", "Roberts, Blake", "Conways, Sephen"
PatternSamples ==
    << <<83, 109, 105, 116, 104, 44, 32, 74, 111, 104, 110>>,
       <<79, 39, 66, 114, 105, 97, 110, 44, 32, 72, 101, 110, 110, 121>>,
       <<68, 97, 108, 101, 44, 32, 68, 97, 110, 110, 121>>,
       <<82, 105, 99, 107, 101, 116, 115, 44, 32, 82, 111, 110, 110, 97, 101>>,
       <<82, 105, 99, 104, 97, 114, 100, 44, 32, 82, 105, 99, 104, 105, 101>>,
       <<82, 111, 98, 101, 114, 116, 115, 44, 32, 66, 108, 97, 107, 101>>,
       <<67, 111, 110, 119, 97, 121, 115, 44, 32, 83, 101, 112, 104, 101, 110>> >>

\* the keys that test expects in pattern_ranks, in order:
\* CvccvccpSCvccvv, CcvccpSCvcc, CvccvccpSCvccvc,
\* CvcvcccpSCcvcv, CvcvpSCvccc, V~CcvvcpSCvccc
PatternSampleKeys ==
    << <<67, 118, 99, 99, 118, 99, 99, 112, 83, 67, 118, 99, 99, 118, 118>>,
       <<67, 99, 118, 99, 99, 112, 83, 67, 118, 99, 99>>,
       <<67, 118, 99, 99, 118, 99, 99, 112, 83, 67, 118, 99, 99, 118, 99>>,
       <<67, 118, 99, 118, 99, 99, 99, 112, 83, 67, 99, 118, 99, 118>>,
       <<67, 118, 99, 118, 112, 83, 67, 118, 99, 99, 99>>,
       <<86, 126, 67, 99, 118, 118, 99, 112, 83, 67, 118, 99, 99, 99>> >>

\* the samples of the test profile_pregenerate_sizes:
\* "Smith, Johny", "O'Brian, Hen", "Dale, Danny", "O'Henry, Al",
\* "Rickets, Ro", "Mr. Wilbers", "Po, Al"
SizeSamples ==
    << <<83, 109, 105, 116, 104, 44, 32, 74, 111, 104, 110, 121>>,
       <<79, 39, 66, 114, 105, 97, 110, 44, 32, 72, 101, 110>>,
       <<68, 97, 108, 101, 44, 32, 68, 97, 110, 110, 121>>,
       <<79, 39, 72, 101, 110, 114, 121, 44, 32, 65, 108>>,
       <<82, 105, 99, 107, 101, 116, 115, 44, 32, 82, 111>>,
       <<77, 114, 46, 32, 87, 105, 108, 98, 101, 114, 115>>,
       <<80, 111, 44, 32, 65, 108>> >>

\* the pattern table and the size table of a fresh Profile after analyze of
\* each sample in turn
RECURSIVE PatternTable(_)
PatternTable(samples) ==
    IF samples = <<>> THEN EmptyMap
    ELSE Increment(PatternTable(SubSeq(samples, 1, Len(samples) - 1)),
                   PatternAnalyze(samples[Len(samples)]).pattern)

RECURSIVE SizeTable(_)
SizeTable(samples) ==
    IF samples = <<>> THEN EmptyMap
    ELSE Increment(SizeTable(SubSeq(samples, 1, Len(samples) - 1)),
                   PatternAnalyze(samples[Len(samples)]).size)

\* ================================================================== claims
Range(v) == {v[i] : i \in DOMAIN v}

Hundred == Rat(100, 1)

\* x - y, not in lowest terms
RatDiff(x, y) == <<x[1] * y[2] - y[1] * x[2], x[2] * y[2]>>

\* the percentage that entry i of a rank table adds to the cumulative value
Original(r, i) == IF i = 1 THEN r[1][2] ELSE RatDiff(r[i][2], r[i - 1][2])

\* a rank table in the order of non-increasing original percentage, with
\* non-decreasing cumulative values, the last of them 100
WellFormedRanks(r) ==
    /\ Len(r) >= 1
    /\ \A i \in 1..(Len(r) - 1) :
           /\ RatLeq(r[i][2], r[i + 1][2])
           /\ RatLeq(Original(r, i + 1), Original(r, i))
    /\ r[Len(r)][2] = Hundred

\* the sum of the counts of the first i keys of a rank table
RECURSIVE CountUpTo(_, _, _)
CountUpTo(r, table, i) ==
    IF i = 0 THEN 0 ELSE table[r[i][1]] + CountUpTo(r, table, i - 1)

\* the place of key k in the sequence keys
Place(keys, k) == CHOOSE i \in DOMAIN keys : keys[i] = k

\* r is the rank table of table, whose keys in ascending order are keys: one
\* entry per key, by descending count and among equal counts by ascending
\* key, each cumulative value the share of the counts up to it
RankTableOf(r, table, keys) ==
    /\ Len(r) = Cardinality(DOMAIN table)
    /\ {r[i][1] : i \in DOMAIN r} = DOMAIN table
    /\ \A i, j \in DOMAIN r : i < j =>
           \/ table[r[i][1]] > table[r[j][1]]
           \/ /\ table[r[i][1]] = table[r[j][1]]
              /\ Place(keys, r[i][1]) < Place(keys, r[j][1])
    /\ \A i \in DOMAIN r :
           r[i][2] = Rat(100 * CountUpTo(r, table, i), SumValues(table))

\* the rank tables a single pre_generate builds on a fresh Profile that
\* holds the pattern table p and the size table s
FreshPatternRanks(p) ==
    LET keys == StringKeys(DOMAIN p)
    IN  cum_patternmap(p, keys, Values(p, keys), PatternTotal(p),
                       <<>>, <<>>).pattern_ranks

FreshSizeRanks(s) == cum_sizemap(s, SizeTotal(s))

\* the patterns of the samples analyzed, and of those analyzed after the
\* last reset_analyze
PatternsOf(samples) == {PatternAnalyze(e).pattern : e \in Range(samples)}

\* no sample analyzed was the empty string (the one sample the specification
\* has analyze reject)
NoEmptySample == <<>> \notin Range(ingested)

\* C1: pre_generate recomputes the rank tables from the tables: after every
\* pre_generate, pattern_ranks and size_ranks are what a single pre_generate
\* on a fresh Profile with the same pattern table and size table builds.
\* The code pushes onto pattern_percentages and pattern_ranks instead: from
\* the second call on pattern_ranks holds the earlier entries too.
C1_FinalizeRecomputes ==
    (outcome.op = "pre_generate" /\ NoEmptySample) =>
        /\ pattern_ranks = FreshPatternRanks(patterns)
        /\ size_ranks = FreshSizeRanks(sizes)

\* C2: after n successful analyze calls on a fresh Profile (no
\* reset_analyze), pattern_total and size_total are n, the counts of each
\* table sum to n, and the keys of the pattern table are the distinct
\* patterns analyzed.
C2_TotalsCountSamples ==
    n_reset = 0 =>
        /\ pattern_total = Len(ingested)
        /\ size_total = Len(ingested)
        /\ SumValues(patterns) = Len(ingested)
        /\ SumValues(sizes) = Len(ingested)
        /\ DOMAIN patterns = PatternsOf(ingested)

\* three samples analyzed, two of them of one pattern
C2_Witness ==
    /\ n_reset = 0
    /\ Len(ingested) >= 3
    /\ Cardinality(DOMAIN patterns) = 2
    /\ outcome.op = "analyze"

\* C3: after every pre_generate with a sample in the pattern table, also a
\* repeated one, pattern_ranks is in the order of non-increasing original
\* percentage, its cumulative values do not decrease and the last is 100.
\* The second pre_generate breaks it: see C1.
C3_PatternRanksWellFormed ==
    (outcome.op = "pre_generate" /\ DOMAIN patterns # {} /\ NoEmptySample) =>
        WellFormedRanks(pattern_ranks)

\* C4: after every pre_generate with at least one sample analyzed, also a
\* repeated one, size_ranks is in the order of non-increasing original
\* percentage, its cumulative values do not decrease and the last is 100.
C4_SizeRanksWellFormed ==
    (outcome.op = "pre_generate" /\ Len(ingested) >= 1) =>
        WellFormedRanks(size_ranks)

\* a repeated pre_generate over two sizes, one seen more often
C4_Witness ==
    /\ outcome.op = "pre_generate"
    /\ n_finalize >= 2
    /\ Len(size_ranks) = 2
    /\ RatLess(Rat(50, 1), size_ranks[1][2])

\* C5: the first pre_generate on a Profile that has analyzed a sample builds
\* rank tables with one entry per key of the table, by descending count and
\* among equal counts by ascending key (lexicographic for the patterns,
\* numeric for the sizes), the i-th cumulative value the sum of the first
\* i entries' count / total x 100; on a fresh Profile the seven samples of
\* the tests give the shares 2/7 .. 7/7 for the patterns and the order 11,
\* 12, 6 for the sizes.
C5_FirstFinalize ==
    /\ (outcome.op = "pre_generate" /\ n_finalize = 1 /\ Len(ingested) >= 1) =>
           /\ RankTableOf(pattern_ranks, patterns, StringKeys(DOMAIN patterns))
           /\ RankTableOf(size_ranks, sizes, NumKeys(DOMAIN sizes))
    /\ outcome.op = "new_with" =>
           /\ FreshPatternRanks(PatternTable(PatternSamples))
                  = [i \in 1..6 |->
                        <<PatternSampleKeys[i], Rat(100 * (i + 1), 7)>>]
           /\ FreshSizeRanks(SizeTable(SizeSamples))
                  = <<<<11, Rat(400, 7)>>, <<12, Rat(600, 7)>>, <<6, Hundred>>>>

\* a first pre_generate that puts a pattern seen twice before a pattern seen
\* once that precedes it in key order
C5_Witness ==
    /\ outcome.op = "pre_generate"
    /\ n_finalize = 1
    /\ Len(pattern_ranks) = 2
    /\ LexLess(pattern_ranks[2][1], pattern_ranks[1][1])
    /\ patterns[pattern_ranks[1][1]] = 2

\* C6: generate on a Profile with an empty pattern_ranks returns the error
\* NotTrained as a value and does not panic.  The code unwraps the
\* Option::None that find returns, and panics.
C6_GenerateNotTrained ==
    (outcome.op = "generate" /\ pattern_ranks = <<>>) =>
        outcome.status = "NotTrained"

\* C7: when no fact is selected for a position, apply_facts reports the
\* error NoMatchingFact as a value; it neither indexes the empty
\* fact_options nor underflows fact_options.len()-1.  The code does the
\* latter, and panics.
C7_NoMatchingFact ==
    (outcome.op \in {"apply_facts", "generate"}
        /\ outcome.panic = "fact_options is empty") =>
        outcome.status = "NoMatchingFact"

\* C8: pre_generate on a Profile that has analyzed no sample fails with
\* NotTrained.  The code returns normally, the two rank tables empty.
C8_FinalizeNotTrained ==
    (outcome.op = "pre_generate" /\ ingested = <<>>) =>
        outcome.status = "NotTrained"

\* C9: analyze of the empty string is rejected with InvalidInput and
\* changes neither table, neither total and no partition of facts.  The
\* code counts the empty pattern and the size 0.
C9_EmptyRejected ==
    [][analyze(<<>>) =>
          /\ outcome'.status = "InvalidInput"
          /\ UNCHANGED <<patterns, pattern_total, sizes, size_total, facts>>]_vars

\* C10: reset_analyze clears the pattern table and the size table: both are
\* empty right after it, and after k further analyze calls both totals
\* are k and the pattern table holds the patterns analyzed since, only.
\* The code clears the pattern table and leaves the size table as it is.
C10_ResetClears ==
    /\ (outcome.op = "reset_analyze" /\ NoEmptySample) =>
           patterns = EmptyMap /\ sizes = EmptyMap
    /\ (n_reset >= 1 /\ NoEmptySample /\ Len(since_reset) >= 1) =>
           /\ pattern_total = Len(since_reset)
           /\ size_total = Len(since_reset)
           /\ DOMAIN patterns = PatternsOf(since_reset)

\* entry i of ranks is the first, in stored order, whose cumulative value is
\* at least s
FirstAtLeast(ranks, s, i) ==
    /\ i \in DOMAIN ranks
    /\ RatLeq(s, ranks[i][2])
    /\ \A j \in 1..(i - 1) : RatLess(ranks[j][2], s)

\* some r in [0, 100) has entry i of ranks as its first entry of a cumulative
\* value of at least r: every earlier value is below both 100 and entry i's
SelectedForSome(ranks, i) ==
    \A j \in 1..(i - 1) :
        /\ RatLess(ranks[j][2], ranks[i][2])
        /\ RatLess(ranks[j][2], Hundred)

\* the patterns generate selects for some r in [0, 100)
Selectable(ranks) ==
    {ranks[i][1] : i \in {j \in DOMAIN ranks : SelectedForSome(ranks, j)}}

\* C11: a generate that follows a pre_generate made with a sample in the
\* pattern table selects, for its draw r, the first entry of pattern_ranks
\* in stored order whose cumulative value is at least r, and there is one;
\* the patterns selected for some r in [0, 100) are those of the pattern
\* table.  The entries a later pre_generate pushes (see C1) come after an
\* entry of value 100 and are never selected.
C11_GenerateSelects ==
    [][\A d \in 0..(DrawRes - 1), draws \in Draws :
          (/\ outcome.op = "pre_generate"
           /\ DOMAIN patterns # {}
           /\ NoEmptySample
           /\ generate(d, draws)) =>
              /\ \E i \in DOMAIN pattern_ranks :
                     /\ FirstAtLeast(pattern_ranks, random_percentage(d), i)
                     /\ outcome'.arg = pattern_ranks[i][1]
              /\ Selectable(pattern_ranks) = DOMAIN patterns]_vars

\* C12: an apply_facts of a pattern of length L that returns, called
\* directly or by generate, returns L chars, the char at each position of
\* the class that the pattern names at that position.
C12_OneCharPerPosition ==
    (outcome.op \in {"apply_facts", "generate"} /\ outcome.status = "ok") =>
        /\ Len(outcome.value) = Len(outcome.arg)
        /\ \A i \in 1..Len(outcome.arg) :
               Placeholder(outcome.value[i]) = outcome.arg[i]

\* an apply_facts that has returned two different chars for a pattern of
\* two symbols
C12_Witness ==
    /\ outcome.op = "apply_facts"
    /\ outcome.status = "ok"
    /\ Len(outcome.arg) = 2
    /\ Len(outcome.value) = 2
    /\ outcome.value[1] # outcome.value[2]

\* C14: generate and apply_facts read the Profile and do not write it: in
\* every step whose call is one of the two (the outcome names the call), the
\* pattern table, the size table, both totals, every partition of facts and
\* both rank tables are after the call, returned or panicked, what they
\* were before it.
C14_GenerationReadOnly ==
    [][outcome'.op \in {"generate", "apply_facts"} =>
           UNCHANGED <<patterns, sizes, pattern_total, size_total, facts,
                       pattern_ranks, size_ranks>>]_vars

\* a generate that has returned a string of two chars from a Profile of two
\* pre_generate calls
C14_Witness ==
    /\ outcome.op = "generate"
    /\ outcome.status = "ok"
    /\ Len(outcome.value) = 2
    /\ Len(pattern_ranks) >= 2
    /\ size_ranks # <<>>

\* the Facts of the sample entity that go to partition j (0-based) of P
\* partitions, in order: those of the positions k with k mod P = j
RoundRobin(entity, P, j) ==
    LET fs == PatternAnalyze(entity).facts
        F[k \in 0..Len(fs)] ==
            IF k = 0 THEN <<>>
            ELSE IF (k - 1) % P = j THEN Append(F[k - 1], fs[k])
            ELSE F[k - 1]
    IN  F[Len(fs)]

\* partition j of P partitions after analyze of each sample in turn
RECURSIVE PartitionOf(_, _, _)
PartitionOf(samples, P, j) ==
    IF samples = <<>> THEN <<>>
    ELSE PartitionOf(SubSeq(samples, 1, Len(samples) - 1), P, j)
         \o RoundRobin(samples[Len(samples)], P, j)

\* the sum of the lengths of the samples
RECURSIVE TotalLength(_)
TotalLength(samples) ==
    IF samples = <<>> THEN 0
    ELSE Len(Head(samples)) + TotalLength(Tail(samples))

\* the number of Facts in the partitions fs
RECURSIVE RecordCount(_)
RecordCount(fs) ==
    IF fs = <<>> THEN 0 ELSE Len(Head(fs)) + RecordCount(Tail(fs))

\* C15: on a Profile of P >= 1 partitions, analyze appends the k-th Fact
\* (0-based) of its sample to partition k mod P, starting at partition 0 in
\* each call: every partition holds, sample after sample, the Facts of the
\* positions k with k mod P its index.  So the Facts of one sample in two
\* partitions differ in number by at most 1, there are P partitions at all
\* times, and they hold as many Facts as the samples analyzed have chars.
C15_RoundRobin ==
    processors >= 1 =>
        /\ Len(facts) = processors
        /\ \A j \in 0..(processors - 1) :
               facts[j + 1] = PartitionOf(ingested, processors, j)
        /\ \A e \in Range(ingested) : \A i, j \in 0..(processors - 1) :
               Len(RoundRobin(e, processors, i))
                   - Len(RoundRobin(e, processors, j)) \in {-1, 0, 1}
        /\ RecordCount(facts) = TotalLength(ingested)

\* two samples analyzed on one partition and on two, one of them of two
\* chars: the second char of the sample wraps to partition 0, or goes to
\* partition 1
C15_Witness ==
    /\ outcome.op = "analyze"
    /\ processors >= 1
    /\ Len(ingested) >= 2
    /\ \E e \in Range(ingested) : Len(e) = 2
    /\ \A j \in 1..processors : Len(facts[j]) >= 1
    /\ RecordCount(facts) >= 3

\* the number of entries of the list v that equal x
Count(v, x) == Cardinality({i \in DOMAIN v : v[i] = x})

\* the places of the Facts of the partitions fs
Records(fs) == UNION {{<<j, n>> : n \in 1..Len(fs[j])} : j \in DOMAIN fs}

\* the places of the Facts that pass the filter of position idx (the first
\* if starts = 1, the last if ends = 1) for the symbol c
Matching(fs, c, starts, ends, idx) ==
    {pl \in Records(fs) :
        LET value == fs[pl[1]][pl[2]]
        IN  /\ value.pattern_placeholder = c
            /\ value.starts_with = starts
            /\ value.ends_with = ends
            /\ value.index_offset = idx}

\* the chars a generated string or a prev can hold
Chars == Alphabet \cup {BLANK}

\* C16: in an apply_facts of a pattern, the pool of position i for the
\* pattern's symbol s at i and any previous char prev holds each key 3 times
\* for each Fact of that key with placeholder s, starts_with (i = 0),
\* ends_with (i = last) and index_offset i whose prior_key (the blank if it
\* has none) is not prev, 5 times for each such Fact whose prior_key is
\* prev, and nothing else.
C16_PoolWeights ==
    outcome.op = "apply_facts" =>
        \A i \in 1..Len(outcome.arg), prev \in Chars :
            LET starts == IF i = 1 THEN 1 ELSE 0
                ends   == IF i = Len(outcome.arg) THEN 1 ELSE 0
                match  == Matching(facts, outcome.arg[i], starts, ends, i - 1)
                pool   == FactOptions(facts, outcome.arg[i], starts, ends,
                                      i - 1, prev)
            IN  \A k \in Chars :
                    LET of_k == {pl \in match : facts[pl[1]][pl[2]].key = k}
                        same == {pl \in of_k :
                                    UnwrapOrBlank(facts[pl[1]][pl[2]].prior_key)
                                        = prev}
                    IN  Count(pool, k) = 5 * Cardinality(same)
                                         + 3 * Cardinality(of_k \ same)

\* an apply_facts that has returned, on a store where the pool of the second
\* position holds, for the char returned first, a key 5 times and another
\* key 3 times
C16_Witness ==
    /\ outcome.op = "apply_facts"
    /\ outcome.status = "ok"
    /\ Len(outcome.value) = 2
    /\ LET pool == FactOptions(facts, outcome.arg[2], 0, 1, 1, outcome.value[1])
       IN  \E k1, k2 \in Alphabet : Count(pool, k1) = 5 /\ Count(pool, k2) = 3

\* the pool of position i (1-based) of the pattern, weighted against the
\* previous char prev
Pool(fs, pattern, i, prev) ==
    FactOptions(fs, pattern[i], IF i = 1 THEN 1 ELSE 0,
                IF i = Len(pattern) THEN 1 ELSE 0, i - 1, prev)

\* the char that the draw d takes from that pool
Drawn(fs, pattern, i, prev, d) ==
    LET pool == Pool(fs, pattern, i, prev)
    IN  IF pool = <<>> THEN None
        ELSE pool[random_between(d, 0, Len(pool) - 1) + 1]

\* C17: in an apply_facts that returns, called directly or by generate, the
\* char at each position is one that a draw takes from the pool weighted
\* against prev, where prev is the blank at position 0 and at every later
\* position the char appended at the position before it.  No pool has a
\* single entry (a Fact that matches is pushed 3 or 5 times), so the branch
\* that takes the only entry without a draw, and without setting prev, is
\* not taken.
C17_PrevIsLastAppended ==
    (outcome.op \in {"apply_facts", "generate"} /\ outcome.status = "ok") =>
        \A i \in 1..Len(outcome.value) :
            LET prev == IF i = 1 THEN BLANK ELSE outcome.value[i - 1]
            IN  /\ Len(Pool(facts, outcome.arg, i, prev)) > 1
                /\ \E d \in 0..(DrawRes - 1) :
                       outcome.value[i] = Drawn(facts, outcome.arg, i, prev, d)

\* an apply_facts that has returned two chars, on a store where a Fact of
\* the second position follows the char returned first and another Fact of
\* that position follows another char
C17_Witness ==
    /\ outcome.op = "apply_facts"
    /\ outcome.status = "ok"
    /\ Len(outcome.value) = 2
    /\ LET second == {facts[pl[1]][pl[2]] :
                         pl \in Matching(facts, outcome.arg[2], 0, 1, 1)}
       IN  /\ \E f \in second : f.prior_key = outcome.value[1]
           /\ \E f \in second : f.prior_key # outcome.value[1]

C19_SelectableIsRebuildable ==
    outcome.op = "generate" =>
        /\ outcome.panic # "fact_options is empty"
        /\ outcome.status = "ok" =>
               \A i \in 1..Len(outcome.value) :
                   \E e \in Range(ingested) :
                       /\ Len(e) >= i
                       /\ e[i] = outcome.value[i]
                       /\ Placeholder(e[i]) = outcome.arg[i]

\* a generate that has returned two chars after a reset_analyze, a further
\* analyze and a pre_generate
C19_Witness ==
    /\ outcome.op = "generate"
    /\ outcome.status = "ok"
    /\ Len(outcome.value) = 2
    /\ n_reset >= 1
    /\ Len(since_reset) >= 1
    /\ Len(ingested) > Len(since_reset)
    /\ n_finalize >= 1

\* C20: in every state reached by analyze, reset_analyze and pre_generate
\* calls in any order, pattern_keys and pattern_vals are the keys and the
\* counts of patterns in key order, pattern_total is the sum of the counts
\* and equals size_total, and no pre_generate has indexed the two lists out
\* of range.  The code's reset_analyze empties patterns and leaves the keys,
\* the counts and the total of the emptied table behind.
C20_CachedFieldsAgree ==
    NoEmptySample =>
        /\ pattern_keys = StringKeys(DOMAIN patterns)
        /\ pattern_vals = Values(patterns, pattern_keys)
        /\ pattern_total = SumValues(patterns)
        /\ pattern_total = size_total
        /\ outcome.op = "pre_generate" => outcome.status = "ok"

=============================================================================
